---- MODULE Spec2Model ----
(***************************************************************************)
(* Model of document-portal-example/connector-notebook.ipynb: the pull /   *)
(* transform / push script of the custom connector starter.  The cells run *)
(* top to bottom; a cell that raises stops the run.                        *)
(***************************************************************************)
EXTENDS Integers, Sequences, FiniteSets, TLC

VARIABLES
  bulk_index_flag,        \* line 86: toggle for bulk indexing
  batch_size,             \* line 87
  tz_offset,              \* UTC offset of the local zone, read by timestamp()
  documents,              \* lines 174-191: the documents pulled
  transformed_documents,  \* line 238
  index_id,               \* line 269: uuid of the bulk session, "" before it
  data,                   \* lines 270-277: the payload dict of the session
  batches,                \* line 278
  n,                      \* line 279
  idx,                    \* line 280: loop index (position of the loop at 301)
  response,               \* status code of the last response
  pc,                     \* where the run is
  raised,                 \* the exception that stopped the run, or "none"
  sent,                   \* the requests posted so far, as the server got them
  responses,              \* the status codes received so far
  log                     \* the lines logged by the push cell

vars == << bulk_index_flag, batch_size, tz_offset, documents,
           transformed_documents, index_id, data, batches, n, idx,
           response, pc, raised, sent, responses, log >>

(* ------------------------------ bounds --------------------------------- *)
MaxDocs == 4
MaxBatchSize == 3

(* ------------------------- configuration cell -------------------------- *)
datasource_name == "mydocumentportal"
object_type == "policy"

(* ------------------------- utility functions --------------------------- *)
B64Alphabet ==
  << "A","B","C","D","E","F","G","H","I","J","K","L","M","N","O","P",
     "Q","R","S","T","U","V","W","X","Y","Z","a","b","c","d","e","f",
     "g","h","i","j","k","l","m","n","o","p","q","r","s","t","u","v",
     "w","x","y","z","0","1","2","3","4","5","6","7","8","9","+","/" >>

B64Char(sextet) == B64Alphabet[sextet + 1]

RECURSIVE convert_raw_binary_to_base64_string(_)
convert_raw_binary_to_base64_string(raw_binary) ==
  IF Len(raw_binary) = 0 THEN << >>
  ELSE IF Len(raw_binary) = 1 THEN
    << B64Char(raw_binary[1] \div 4),
       B64Char((raw_binary[1] % 4) * 16), "=", "=" >>
  ELSE IF Len(raw_binary) = 2 THEN
    << B64Char(raw_binary[1] \div 4),
       B64Char((raw_binary[1] % 4) * 16 + raw_binary[2] \div 16),
       B64Char((raw_binary[2] % 16) * 4), "=" >>
  ELSE
    << B64Char(raw_binary[1] \div 4),
       B64Char((raw_binary[1] % 4) * 16 + raw_binary[2] \div 16),
       B64Char((raw_binary[2] % 16) * 4 + raw_binary[3] \div 64),
       B64Char(raw_binary[3] % 64) >>
    \o convert_raw_binary_to_base64_string(
         SubSeq(raw_binary, 4, Len(raw_binary)))

IsLeapYear(y) == (y % 4 = 0 /\ y % 100 # 0) \/ y % 400 = 0

DaysInMonth(y, m) ==
  IF m = 2 THEN (IF IsLeapYear(y) THEN 29 ELSE 28)
  ELSE IF m \in {4, 6, 9, 11} THEN 30 ELSE 31

\* a datetime string is the six numbers written in it, in the order of the
\* format '%Y-%m-%dT%H:%M:%SZ'; strptime raises ValueError when they do not
\* form a date and time
StrptimeAccepts(s) ==
  /\ s[2] \in 1..12
  /\ s[3] \in 1..DaysInMonth(s[1], s[2])
  /\ s[4] \in 0..23
  /\ s[5] \in 0..59
  /\ s[6] \in 0..59

DaysFromCivil(y, m, d) ==
  LET yy  == IF m <= 2 THEN y - 1 ELSE y
      era == yy \div 400
      yoe == yy - era * 400
      mp  == IF m > 2 THEN m - 3 ELSE m + 9
      doy == (153 * mp + 2) \div 5 + d - 1
      doe == yoe * 365 + yoe \div 4 - yoe \div 100 + doy
  IN era * 146097 + doe - 719468

\* the datetime parsed is naive, so timestamp() reads it as local time
convert_timestamp_to_epoch_seconds(datetime_str, offset) ==
  IF ~ StrptimeAccepts(datetime_str)
  THEN [raised |-> "ValueError", value |-> 0]
  ELSE [raised |-> "none",
        value |-> DaysFromCivil(datetime_str[1], datetime_str[2],
                                datetime_str[3]) * 86400
                  + datetime_str[4] * 3600 + datetime_str[5] * 60
                  + datetime_str[6] - offset]

\* only the full batches: the tail shorter than size is lost
RECURSIVE create_batches_from_DropsTail(_, _, _)
create_batches_from_DropsTail(lst, size, i) ==
  IF i + size > Len(lst) THEN << >>
  ELSE << SubSeq(lst, i + 1, i + size) >>
       \o create_batches_from_DropsTail(lst, size, i + size)

\* for i in range(0, len(lst), batch_size): yield lst[i:i + batch_size]
RECURSIVE create_batches_from(_, _, _)
create_batches_from(lst, size, i) ==
  IF i >= Len(lst) THEN << >>
  ELSE << SubSeq(lst, i + 1,
                 IF i + size < Len(lst) THEN i + size ELSE Len(lst)) >>
       \o create_batches_from(lst, size, i + size)

\* an empty list still gives one (empty) batch
create_batches_OneEmptyBatch(lst, size) ==
  IF Len(lst) = 0 THEN << << >> >> ELSE create_batches_from(lst, size, 0)

create_batches(lst, size) == create_batches_from(lst, size, 0)

(* --------------------------- pull documents ---------------------------- *)
SampleBytes == << 77, 97, 110, 255 >>
SampleDates == << << 2024, 12, 15, 3, 5, 58 >>, << 1970, 1, 1, 0, 0, 0 >>,
                  << 2000, 2, 29, 23, 59, 59 >>, << 2023, 3, 1, 0, 0, 0 >> >>
TzOffsets == {0, -18000}
Shapes == {"full", "no_author", "no_date_created", "bad_date_created",
           "no_title"}

Without(document, keys) ==
  [k \in (DOMAIN document) \ keys |-> document[k]]

\* the record the pull cell appends for the i-th file
PulledDocument(i) ==
  [binary_content |-> SubSeq(SampleBytes, 1, (i - 1) % 4),
   url            |-> << "https://mywebsite.com/files/", i >>,
   filename       |-> i,
   author         |-> "John Doe",
   authorEmail    |-> "john.doe@acme.com",
   title          |-> "Sample Document",
   date_created   |-> SampleDates[((i - 1) % 4) + 1],
   id             |-> i]

\* what a document portal may hand over instead: optional metadata missing,
\* a date in another format, a required field missing
RawDocument(i, shape) ==
  CASE shape = "full" -> PulledDocument(i)
    [] shape = "no_author" ->
         Without(PulledDocument(i), {"author", "authorEmail"})
    [] shape = "no_date_created" ->
         Without(PulledDocument(i), {"date_created"})
    [] shape = "bad_date_created" ->
         [PulledDocument(i) EXCEPT !["date_created"] = << 2024, 15, 12, 3, 5, 58 >>]
    [] shape = "no_title" -> Without(PulledDocument(i), {"title"})

(* ------------------------- transform document -------------------------- *)
\* the first key of the literal, in evaluation order, that the document
\* lacks; "" when it has them all
TransformKeys == << "id", "url", "title", "binary_content", "authorEmail",
                    "author", "date_created" >>

RECURSIVE FirstMissingKey(_, _)
FirstMissingKey(document, i) ==
  IF i > Len(TransformKeys) THEN ""
  ELSE IF TransformKeys[i] \notin DOMAIN document THEN TransformKeys[i]
  ELSE FirstMissingKey(document, i + 1)

transform_document(document, offset) ==
  IF FirstMissingKey(document, 1) # ""
  THEN [raised |-> "KeyError", value |-> << >>]
  ELSE LET createdAt ==
             convert_timestamp_to_epoch_seconds(document["date_created"],
                                                offset)
       IN IF createdAt.raised # "none"
          THEN [raised |-> createdAt.raised, value |-> << >>]
          ELSE [raised |-> "none",
                value |->
                  [datasource  |-> datasource_name,
                   id          |-> document["id"],
                   objectType  |-> object_type,
                   viewURL     |-> document["url"],
                   permissions |-> [allowAnonymousAccess |-> TRUE],
                   title       |-> document["title"],
                   body        |->
                     [mimeType |-> "application/pdf",
                      binaryContent |->
                        convert_raw_binary_to_base64_string(
                          document["binary_content"])],
                   author      |-> [email |-> document["authorEmail"],
                                    name  |-> document["author"]],
                   createdAt   |-> createdAt.value]]

(* ------------------------------- state --------------------------------- *)
NoData == << >>

Init ==
  /\ bulk_index_flag \in BOOLEAN
  /\ batch_size \in 1..MaxBatchSize
  /\ tz_offset \in TzOffsets
  /\ \E len \in 0..MaxDocs :
       \E shapes \in [1..len -> Shapes] :
         documents = [i \in 1..len |-> RawDocument(i, shapes[i])]
  /\ transformed_documents = << >>
  /\ index_id = ""
  /\ data = NoData
  /\ batches = << >>
  /\ n = 0
  /\ idx = 0
  /\ response = 0
  /\ pc = "transform"
  /\ raised = "none"
  /\ sent = << >>
  /\ responses = << >>
  /\ log = << >>

\* transformed_documents = [transform_document(document) for document in documents]
TransformCell ==
  /\ pc = "transform"
  /\ LET results == [i \in 1..Len(documents) |->
                       transform_document(documents[i], tz_offset)]
         failing == {i \in 1..Len(documents) : results[i].raised # "none"}
     IN IF failing # {}
        THEN /\ raised' = results[CHOOSE i \in failing :
                                    \A j \in failing : i <= j].raised
             /\ pc' = "raised"
             /\ UNCHANGED transformed_documents
        ELSE /\ transformed_documents' =
                  [i \in 1..Len(documents) |-> results[i].value]
             /\ pc' = "push"
             /\ UNCHANGED raised
  /\ UNCHANGED << bulk_index_flag, batch_size, tz_offset, documents, index_id,
                  data, batches, n, idx, response, sent, responses, log >>

(* ---------------------------- push documents --------------------------- *)
UploadIds == {"uuid-a", "uuid-b"}
StatusCodes == {200, 204, 299, 400, 500}

Request(endpoint, json) == [endpoint |-> endpoint, json |-> json]

LogLine(level, what, ref, status) ==
  [level |-> level, what |-> what, ref |-> ref, status |-> status]

\* if bulk_index_flag: the session payload and the list of batches
PushCellBulk ==
  /\ pc = "push"
  /\ bulk_index_flag
  /\ \E uuid4 \in UploadIds : index_id' = uuid4
  /\ data' = [uploadId           |-> index_id',
              isFirstPage        |-> TRUE,
              isLastPage         |-> FALSE,
              forceRestartUpload |-> TRUE,
              datasource         |-> datasource_name,
              documents          |-> << >>]
  /\ batches' = create_batches(transformed_documents, batch_size)
  /\ n' = Len(batches')
  /\ idx' = 0
  /\ pc' = IF n' = 0 THEN "done" ELSE "bulk_post"
  /\ UNCHANGED << bulk_index_flag, batch_size, tz_offset, documents,
                  transformed_documents, response, raised, sent, responses,
                  log >>

\* loop body up to requests.post: the request leaves with the payload as it
\* is at that moment
BulkPost ==
  /\ pc = "bulk_post"
  /\ data' = [data EXCEPT !["documents"] = batches[idx + 1],
                          !["isLastPage"] = (idx = n - 1)]
  /\ sent' = Append(sent, Request("bulkindexdocuments", data'))
  /\ pc' = "bulk_wait"
  /\ UNCHANGED << bulk_index_flag, batch_size, tz_offset, documents,
                  transformed_documents, index_id, batches, n, idx, response,
                  raised, responses, log >>

\* if idx == 0: the payload of the pages that follow the first
FirstPageDone_KeepsKey(d) ==
  [d EXCEPT !["isFirstPage"] = FALSE, !["forceRestartUpload"] = FALSE]

FirstPageDone(d) ==
  [Without(d, {"forceRestartUpload"}) EXCEPT !["isFirstPage"] = FALSE]

\* status 200: log, adjust the payload after page 0, next iteration
BulkUploaded(status_code) ==
  /\ log' = Append(log, LogLine("INFO", "batch", idx + 1, status_code))
  /\ data' = IF idx = 0 THEN FirstPageDone(data) ELSE data
  /\ IF idx + 1 < n
     THEN idx' = idx + 1 /\ pc' = "bulk_post"
     ELSE idx' = idx /\ pc' = "done"
  /\ UNCHANGED raised

BulkErrorLines(status_code) ==
  << LogLine("ERROR", "batch", idx + 1, status_code),
     LogLine("ERROR", "text", idx + 1, status_code) >>

\* the failed page is logged and the loop goes on with the next batch
BulkFailed_Continues(status_code) ==
  /\ log' = log \o BulkErrorLines(status_code)
  /\ data' = IF idx = 0 THEN FirstPageDone(data) ELSE data
  /\ IF idx + 1 < n
     THEN idx' = idx + 1 /\ pc' = "bulk_post"
     ELSE idx' = idx /\ pc' = "done"
  /\ UNCHANGED raised

\* the failed page is logged and posted again
BulkFailed_Retries(status_code) ==
  /\ log' = log \o BulkErrorLines(status_code)
  /\ pc' = "bulk_post"
  /\ UNCHANGED << data, idx, raised >>

\* any other status: log the status and the response text, raise
BulkFailed(status_code) ==
  /\ log' = log \o BulkErrorLines(status_code)
  /\ raised' = "RuntimeError"
  /\ pc' = "raised"
  /\ UNCHANGED << data, idx >>

\* requests.post returns; the rest of the loop body
BulkResponse ==
  /\ pc = "bulk_wait"
  /\ \E status_code \in StatusCodes :
       /\ response' = status_code
       /\ responses' = Append(responses, status_code)
       /\ IF status_code = 200
          THEN BulkUploaded(status_code)
          ELSE BulkFailed(status_code)
  /\ UNCHANGED << bulk_index_flag, batch_size, tz_offset, documents,
                  transformed_documents, index_id, batches, n, sent >>

\* requests.post raises instead of returning (no connection, timeout)
BulkTransportFailure ==
  /\ pc = "bulk_wait"
  /\ raised' = "RequestException"
  /\ pc' = "raised"
  /\ UNCHANGED << bulk_index_flag, batch_size, tz_offset, documents,
                  transformed_documents, index_id, data, batches, n, idx,
                  response, sent, responses, log >>

\* else: one request per document; idx is the position of the for loop
PushCellIndividual ==
  /\ pc = "push"
  /\ ~ bulk_index_flag
  /\ idx' = 0
  /\ pc' = IF Len(transformed_documents) = 0 THEN "done" ELSE "doc_post"
  /\ UNCHANGED << bulk_index_flag, batch_size, tz_offset, documents,
                  transformed_documents, index_id, data, batches, n, response,
                  raised, sent, responses, log >>

DocPost ==
  /\ pc = "doc_post"
  /\ sent' = Append(sent, Request("indexdocument",
                                  [document |-> transformed_documents[idx + 1]]))
  /\ pc' = "doc_wait"
  /\ UNCHANGED << bulk_index_flag, batch_size, tz_offset, documents,
                  transformed_documents, index_id, data, batches, n, idx,
                  response, raised, responses, log >>

DocUploaded(status_code) ==
  /\ log' = Append(log, LogLine("INFO", "document",
                                transformed_documents[idx + 1].id,
                                status_code))
  /\ IF idx + 1 < Len(transformed_documents)
     THEN idx' = idx + 1 /\ pc' = "doc_post"
     ELSE idx' = idx /\ pc' = "done"
  /\ UNCHANGED raised

DocErrorLines(status_code) ==
  << LogLine("ERROR", "document", transformed_documents[idx + 1].id,
             status_code),
     LogLine("ERROR", "text", transformed_documents[idx + 1].id,
             status_code) >>

\* the failed document is logged and the loop goes on with the next one
DocFailed_Continues(status_code) ==
  /\ log' = log \o DocErrorLines(status_code)
  /\ IF idx + 1 < Len(transformed_documents)
     THEN idx' = idx + 1 /\ pc' = "doc_post"
     ELSE idx' = idx /\ pc' = "done"
  /\ UNCHANGED raised

DocFailed(status_code) ==
  /\ log' = log \o DocErrorLines(status_code)
  /\ raised' = "RuntimeError"
  /\ pc' = "raised"
  /\ UNCHANGED idx

DocResponse ==
  /\ pc = "doc_wait"
  /\ \E status_code \in StatusCodes :
       /\ response' = status_code
       /\ responses' = Append(responses, status_code)
       /\ IF status_code = 200
          THEN DocUploaded(status_code)
          ELSE DocFailed(status_code)
  /\ UNCHANGED << bulk_index_flag, batch_size, tz_offset, documents,
                  transformed_documents, index_id, data, batches, n, sent >>

DocTransportFailure ==
  /\ pc = "doc_wait"
  /\ raised' = "RequestException"
  /\ pc' = "raised"
  /\ UNCHANGED << bulk_index_flag, batch_size, tz_offset, documents,
                  transformed_documents, index_id, data, batches, n, idx,
                  response, sent, responses, log >>

Next ==
  \/ TransformCell
  \/ PushCellBulk
  \/ BulkPost
  \/ BulkResponse
  \/ BulkTransportFailure
  \/ PushCellIndividual
  \/ DocPost
  \/ DocResponse
  \/ DocTransportFailure

Spec == Init /\ [][Next]_vars

(* ============================ properties =============================== *)
Is2xx(status_code) == status_code >= 200 /\ status_code <= 299

\* the push cell has opened a bulk session
InBulkSession == bulk_index_flag /\ index_id # ""

\* the individual loop has been entered
InIndividualRun ==
  ~ bulk_index_flag /\ pc \in {"doc_post", "doc_wait", "done", "raised"}
                    /\ raised \notin {"KeyError", "ValueError"}

SessionState ==
  IF pc = "raised" THEN "Aborted"
  ELSE IF pc = "done" THEN "Complete"
  ELSE IF "forceRestartUpload" \in DOMAIN data THEN "AwaitingFirstPage"
  ELSE "MidSession"

RECURSIVE Flatten(_)
Flatten(seqs) ==
  IF Len(seqs) = 0 THEN << >> ELSE Head(seqs) \o Flatten(Tail(seqs))

\* C1: in bulk mode, among the page requests sent, page 0 is the only one
\* with isFirstPage = true, page n-1 the only one with isLastPage = true, and
\* the key forceRestartUpload is in the payload of page 0 (true) and in no
\* other; a single page carries the three together.
C1_BulkFraming ==
  InBulkSession =>
    /\ \A i \in 1..Len(sent) :
         /\ sent[i].json["isFirstPage"] = (i = 1)
         /\ sent[i].json["isLastPage"] = (i = n)
         /\ ("forceRestartUpload" \in DOMAIN sent[i].json) = (i = 1)
         /\ (i = 1) => (sent[i].json["forceRestartUpload"] = TRUE)
    /\ (n = 1 /\ Len(sent) = 1) =>
         /\ sent[1].json["isFirstPage"] = TRUE
         /\ sent[1].json["isLastPage"] = TRUE
         /\ sent[1].json["forceRestartUpload"] = TRUE

C1_Witness ==
  /\ InBulkSession
  /\ n = 3
  /\ Len(sent) = 3
  /\ pc = "done"

\* C2: in bulk mode, once page k is answered with a non-2xx status the
\* session is Aborted, a failure is raised, and page k is the last request
\* ever sent: no retry of it, no later page.
C2_BulkAbort ==
  InBulkSession =>
    \A k \in 1..Len(responses) :
      ~ Is2xx(responses[k]) =>
        /\ SessionState = "Aborted"
        /\ raised = "RuntimeError"
        /\ Len(responses) = k
        /\ Len(sent) = k

C2_Witness ==
  /\ InBulkSession
  /\ n = 3
  /\ responses = << 200, 400 >>
  /\ Len(sent) = 2
  /\ pc = "raised"

C4_Batching ==
  InBulkSession =>
    LET N == Len(transformed_documents)
        B == batch_size
    IN /\ Len(batches) = (N + B - 1) \div B
       /\ (N = 0) => (batches = << >>)
       /\ \A i \in 1..(Len(batches) - 1) : Len(batches[i]) = B
       /\ (Len(batches) > 0) =>
            Len(batches[Len(batches)]) = (IF N % B = 0 THEN B ELSE N % B)
       /\ Flatten(batches) = transformed_documents

C4_Witness ==
  /\ InBulkSession
  /\ Len(transformed_documents) = 4
  /\ batch_size = 3
  /\ Len(batches) = 2
  /\ Len(batches[2]) = 1

\* C5: in bulk mode every 2xx answer (200 through 299) to page i has the
\* driver advance: page i+1 is posted next when i < n-1, the session is
\* Complete when i = n-1; Aborted is entered only on a non-2xx answer.
C5_Any2xxAccepted ==
  [][(InBulkSession /\ pc = "bulk_wait" /\ responses' # responses) =>
       /\ Is2xx(response') =>
            pc' = (IF idx = n - 1 THEN "done" ELSE "bulk_post")
       /\ (pc' = "raised") => ~ Is2xx(response')]_vars

\* C6: in individual mode the first non-2xx answer ends the run with the
\* failure raised at once, and no request for a later document is sent.
C6_IndividualFatal ==
  InIndividualRun =>
    \A j \in 1..Len(responses) :
      ~ Is2xx(responses[j]) =>
        /\ raised = "RuntimeError"
        /\ pc = "raised"
        /\ Len(responses) = j
        /\ Len(sent) = j

C6_Witness ==
  /\ InIndividualRun
  /\ Len(transformed_documents) = 4
  /\ responses = << 200, 200, 400 >>
  /\ Len(sent) = 3
  /\ raised = "RuntimeError"

\* C7: in bulk mode the pages sent so far are pages 0..k in that order, each
\* once, k < n, and a page is posted only when every page before it has been
\* answered: at most one request is in flight.
C7_PagesInOrder ==
  /\ [](InBulkSession =>
          /\ Len(sent) <= n
          /\ \A i \in 1..Len(sent) :
               /\ sent[i].endpoint = "bulkindexdocuments"
               /\ sent[i].json["documents"] = batches[i]
          /\ \A i, j \in 1..Len(sent) :
               (i # j) => (sent[i].json["documents"] # sent[j].json["documents"])
          /\ Len(sent) - Len(responses) \in {0, 1})
  /\ [][(InBulkSession /\ sent' # sent) =>
          /\ Len(responses) = Len(sent)
          /\ Len(sent') = Len(sent) + 1
          /\ \A i \in 1..Len(sent) : sent'[i] = sent[i]]_vars

C7_Witness ==
  /\ InBulkSession
  /\ n = 4
  /\ Len(sent) = 3
  /\ Len(responses) = 2
  /\ pc = "bulk_wait"

RequiredInput == {"id", "url", "title", "binary_content"}
RequiredOutput == {"datasource", "id", "objectType", "viewURL", "permissions",
                   "title", "body"}

\* C8: for a document holding the required fields id, url, title and
\* binary_content, transform_document returns a record with datasource, id
\* (the input's), objectType, viewURL, permissions, title and body; when the
\* optional author / authorEmail or date_created are missing, the record is
\* still returned, without the key author or createdAt.
C8_TransformCompleteness ==
  (pc # "transform") =>
  \A i \in 1..Len(documents) :
    LET document == documents[i]
        result == transform_document(document, tz_offset)
    IN (/\ RequiredInput \subseteq DOMAIN document
        /\ ("date_created" \in DOMAIN document =>
              StrptimeAccepts(document["date_created"])))
       =>
       /\ result.raised = "none"
       /\ raised # "KeyError"
       /\ RequiredOutput \subseteq DOMAIN result.value
       /\ result.value["id"] = document["id"]
       /\ ({"author", "authorEmail"} \cap DOMAIN document = {})
            => "author" \notin DOMAIN result.value
       /\ ("date_created" \notin DOMAIN document)
            => "createdAt" \notin DOMAIN result.value

\* C9: in bulk mode with no document the run posts nothing and ends without
\* raising.
C9_EmptyBulkRun ==
  (bulk_index_flag /\ Len(documents) = 0) =>
    /\ sent = << >>
    /\ raised = "none"
    /\ pc \in {"transform", "push", "done"}
    /\ InBulkSession => (n = 0 /\ pc = "done")

C9_Witness ==
  /\ InBulkSession
  /\ Len(documents) = 0
  /\ pc = "done"
  /\ sent = << >>

\* C10: a bulk run ends after at most n page requests, Complete or Aborted;
\* Complete exactly when each of the n pages was answered with success (2xx),
\* and then the documents of the pages sent, in page order, are the
\* transformed documents, all pages under one uploadId.
C10_BulkTermination ==
  InBulkSession =>
    /\ Len(sent) <= n
    /\ (Len(responses) = n /\ \A i \in 1..n : Is2xx(responses[i]))
         => SessionState \in {"Complete", "Aborted"}
    /\ SessionState \in {"Complete", "Aborted"} =>
         /\ (SessionState = "Complete") <=>
              (Len(responses) = n /\ \A i \in 1..n : Is2xx(responses[i]))
         /\ (SessionState = "Complete") =>
              /\ Flatten([i \in 1..Len(sent) |-> sent[i].json["documents"]])
                   = transformed_documents
              /\ \A i \in 1..Len(sent) : sent[i].json["uploadId"] = index_id

====
